---- MODULE Spec2Model ----
(***************************************************************************)
(* EV range predictor: the feature pipeline (DataLoader) and the training  *)
(* and inference orchestrator (EVRangePredictor), as state machines.       *)
(*                                                                         *)
(* JavaScript arrays are sequences; a 0-based index i of the source is the *)
(* value i stored at position i + 1.  null is the empty sequence None and  *)
(* a set field x is Some(x).  A JavaScript scalar is a record with the     *)
(* fields k (kind: "num", "str" or "nan"), n (the number) and s (the       *)
(* string).  An Error is the sequence of the parts of its message, the     *)
(* outermost wrapper first.                                                *)
(***************************************************************************)
EXTENDS Integers, Sequences, FiniteSets, TLC

VARIABLES
    variant,              \* which app.js is deployed: "application" or "root"
    rawData,              \* DataLoader.rawData
    processedData,        \* DataLoader.processedData
    featureStats,         \* DataLoader.featureStats
    categoricalMappings,  \* DataLoader.categoricalMappings
    loadResult,           \* the last loadCSV call: what the fetch delivered, the outcome
    prep,                 \* the frame of the last preprocessData call
    lastTransform,        \* the last transformUserInput call: its argument and result
    stage,                \* the stage initialize() is in
    pc,                   \* the await initialize() or trainModel() is suspended at
    model,                \* EVRangePredictor.model
    isTraining,           \* EVRangePredictor.isTraining
    isModelReady,         \* EVRangePredictor.isModelReady
    trainingHistory,      \* EVRangePredictor.trainingHistory
    epoch,                \* the number of epochs model.fit has finished
    status,               \* elements.trainingStatus (className and text)
    stepStatus,           \* the status icon of each [data-step] element
    predictBtnDisabled,   \* elements.predictBtn.disabled
    ui,                   \* progress display, chart redraws, result display
    tensors,              \* live tensors of the numerical runtime, by owner
    inflight,             \* Predict requests suspended at prediction.data()
    alerts,               \* the messages shown by alert(), in order
    requests              \* ghost: the form submits (their number, the stage and the
                          \* record of the last, their outcomes) and the direct
                          \* trainModel calls made

dlVars == <<rawData, processedData, featureStats, categoricalMappings, loadResult, prep,
           lastTransform>>
appVars == <<stage, pc, model, isTraining, isModelReady, trainingHistory, epoch,
             status, stepStatus, predictBtnDisabled, ui, tensors, inflight, alerts>>
vars == <<variant, dlVars, appVars, requests>>

----------------------------------------------------------------------------
(* Bounds of the model *)

\* data lines of a CSV given to the feature pipeline alone
MaxRows == 5
\* data lines of a CSV given to the whole application
MaxAppRows == 2
\* epochs of a training run (totalEpochs is 100 or 200 in the source)
TotalEpochs == 2
\* form submits in a session
MaxPredicts == 2
\* direct calls of trainModel besides the one of initialize
MaxTrainCalls == 1

----------------------------------------------------------------------------
(* Values *)

None == <<>>
Some(x) == <<x>>

Num(n) == [k |-> "num", n |-> n, s |-> ""]
Str(s) == [k |-> "str", n |-> 0, s |-> s]
NaN == [k |-> "nan", n |-> 0, s |-> ""]

\* a number with one decimal that is no integer, given in tenths; no double
\* is equal to it, and arithmetic on it rounds
Tenths(t) == [k |-> "num", n |-> t, s |-> "tenths"]

\* a number, in tenths
InTenths(v) == IF v.s = "tenths" THEN v.n ELSE 10 * v.n

Range(f) == {f[i] : i \in DOMAIN f}

RECURSIVE SumSeq(_)
SumSeq(q) == IF q = <<>> THEN 0 ELSE Head(q) + SumSeq(Tail(q))

RECURSIVE Concat(_)
Concat(qs) == IF qs = <<>> THEN <<>> ELSE Head(qs) \o Concat(Tail(qs))

\* the numeric strings of the model and the numbers they denote
NumericTokens == <<"0", "1", "2", "3", "4", "5", "6", "7", "8", "9">>
IsNumericString(s) == \E i \in DOMAIN NumericTokens : NumericTokens[i] = s
NumberOf(s) == (CHOOSE i \in DOMAIN NumericTokens : NumericTokens[i] = s) - 1

\* String.prototype.trim on a cell
TrimCell(c) ==
    CASE c = " "    -> ""
      [] c = " 1"   -> "1"
      [] c = "CCS " -> "CCS"
      [] OTHER      -> c

\* isNaN(x) of the language, on a scalar
IsNaNValue(v) == v.k # "num"

----------------------------------------------------------------------------
(* DataLoader.parseCSV *)

\* a line that is empty or blank: text.trim() removes such lines at both ends
BlankLine(line) == Len(line) = 1 /\ TrimCell(line[1]) = ""

RECURSIVE DropBlankHead(_)
DropBlankHead(lines) ==
    IF lines # <<>> /\ BlankLine(Head(lines)) THEN DropBlankHead(Tail(lines)) ELSE lines

RECURSIVE DropBlankTail(_)
DropBlankTail(lines) ==
    IF lines # <<>> /\ BlankLine(lines[Len(lines)])
    THEN DropBlankTail(SubSeq(lines, 1, Len(lines) - 1)) ELSE lines

\* csvText.trim().split('\n'), each line already split at ','
TrimSplit(csvText) ==
    LET t == DropBlankTail(DropBlankHead(csvText))
    IN  IF t = <<>> THEN << <<"">> >> ELSE t

\* isNaN(value) ? value : parseFloat(value), on a trimmed cell
Coerce(value) ==
    IF value = "" THEN NaN
    ELSE IF IsNumericString(value) THEN Num(NumberOf(value))
    ELSE IF value = "2.7" THEN Tenths(27)
    ELSE Str(value)

\* the row object built from one data line
RowOf(headers, values) ==
    [h \in Range(headers) |->
        Coerce(values[CHOOSE i \in DOMAIN headers :
                         /\ headers[i] = h
                         /\ \A j \in DOMAIN headers : headers[j] = h => j <= i])]

parseCSV(csvText) ==
    LET lines == TrimSplit(csvText)
        headers == [i \in DOMAIN lines[1] |-> TrimCell(lines[1][i])]
        dataLines == Tail(lines)
        trimmed(line) == [i \in DOMAIN line |-> TrimCell(line[i])]
        kept == SelectSeq(dataLines, LAMBDA line : Len(line) = Len(headers))
    IN  IF Len(lines) < 2
        THEN [ok |-> FALSE, data |-> <<>>,
              error |-> <<"CSV parsing failed",
                          "CSV file must contain header and at least one data row">>]
        ELSE [ok |-> TRUE, error |-> <<>>,
              data |-> [i \in DOMAIN kept |-> RowOf(headers, trimmed(kept[i]))]]

\* a plausible slip: a parse that returns no record is not refused
loadCSVTextAllowsEmpty(csvText) ==
    LET parsed == parseCSV(csvText)
    IN  IF ~parsed.ok
        THEN [ok |-> FALSE, rawData |-> None,
              error |-> <<"CSV loading failed">> \o parsed.error]
        ELSE [ok |-> TRUE, rawData |-> Some(parsed.data), error |-> <<>>]

\* loadCSV from response.text() on: parse, store, reject an empty result
loadCSVText(csvText) ==
    LET parsed == parseCSV(csvText)
    IN  IF ~parsed.ok
        THEN [ok |-> FALSE, rawData |-> None,
              error |-> <<"CSV loading failed">> \o parsed.error]
        ELSE IF Len(parsed.data) = 0
        THEN [ok |-> FALSE, rawData |-> Some(parsed.data),
              error |-> <<"CSV loading failed", "No data found in CSV file">>]
        ELSE [ok |-> TRUE, rawData |-> Some(parsed.data), error |-> <<>>]

----------------------------------------------------------------------------
(* DataLoader.preprocessData *)

numericalFeatures ==
    <<"top_speed_kmh", "battery_capacity_kWh", "torque_nm", "acceleration_0_100_s",
      "fast_charging_power_kw_dc", "seats", "length_mm", "width_mm", "height_mm">>
categoricalFeatures == <<"fast_charge_port", "drivetrain">>
targetColumn == "range_km"

\* a plausible slip: the target column is not among the columns verified
missingColumnsOfFeatures(sampleRow) ==
    SelectSeq(numericalFeatures \o categoricalFeatures,
              LAMBDA col : col \notin DOMAIN sampleRow)

missingColumns(sampleRow) ==
    SelectSeq(numericalFeatures \o categoricalFeatures \o <<targetColumn>>,
              LAMBDA col : col \notin DOMAIN sampleRow)

\* the row filter of the forEach: target present, every feature present
\* and every numerical feature not NaN
hasAllFeatures(row) ==
    /\ \A i \in DOMAIN numericalFeatures :
          /\ numericalFeatures[i] \in DOMAIN row
          /\ ~IsNaNValue(row[numericalFeatures[i]])
    /\ \A i \in DOMAIN categoricalFeatures : categoricalFeatures[i] \in DOMAIN row

\* a plausible slip: the filter does not test the numerical features for NaN
validRowAnyValue(row) ==
    /\ targetColumn \in DOMAIN row
    /\ \A i \in DOMAIN numericalFeatures : numericalFeatures[i] \in DOMAIN row
    /\ \A i \in DOMAIN categoricalFeatures : categoricalFeatures[i] \in DOMAIN row

validRow(row) == targetColumn \in DOMAIN row /\ hasAllFeatures(row)

\* String(v), the key Array.prototype.sort compares by default
ToStringValue(v) ==
    CASE v.k = "num" /\ v.s = "tenths" -> "2.7"
      [] v.k = "num" -> NumericTokens[v.n + 1]
      [] v.k = "nan" -> "NaN"
      [] OTHER       -> v.s

\* the strings of the model in UTF-16 code unit order
StringOrder ==
    <<"0", "1", "2", "2.7", "3", "4", "5", "6", "7", "8", "9",
      "6WD", "AWD", "CCS", "CHAdeMO", "FWD", "NaN", "RWD", "Type2", "abc">>
OrderIndex(s) == CHOOSE i \in DOMAIN StringOrder : StringOrder[i] = s

\* [...new Set(values)].sort(): the distinct values, by their strings
RECURSIVE SortedValues(_)
SortedValues(S) ==
    IF S = {} THEN <<>>
    ELSE LET least == CHOOSE v \in S : \A w \in S :
                          OrderIndex(ToStringValue(v)) <= OrderIndex(ToStringValue(w))
         IN  <<least>> \o SortedValues(S \ {least})

buildCategoricalMappings(features) ==
    [f \in Range(categoricalFeatures) |->
        SortedValues({features[i][f] : i \in DOMAIN features})]

\* mean = sum / n and std = sqrt(sq) / n, kept exact as the integers sum (in
\* tenths), n and sq = n * sum(x^2) - sum(x)^2 = n^2 * variance.  The doubles
\* of the source compute them exactly for the small integers of the model;
\* for equal values 2.7 the sum rounds, and values.reduce(...) / values.length
\* misses 2.7 by the given number of units in the last place:
\*   2.7 + 2.7 + 2.7 = 8.100000000000001, / 3 = 2.7000000000000006  (+1)
\*   6, 7 or 8 values give 2.6999999999999997                       (-1)
MeanErrorUlps(values) ==
    IF \A i \in DOMAIN values : values[i] = Tenths(27)
    THEN CASE Len(values) = 3         -> 1
           [] Len(values) \in 6 .. 8  -> -1
           [] OTHER                   -> 0
    ELSE 0

\* std === 0 ? 1 : std, on the std the doubles give: it is 0 when the exact
\* variance is 0 and the mean came out exact; std = 1 is sq = (10 n)^2
StdOrOne(sq, n, ulps) == IF sq = 0 /\ ulps = 0 THEN 100 * n * n ELSE sq

\* the statistics of one feature; ulps # 0 says that the values are equal, the
\* mean is that many units in the last place off them, and std is as many
\* units in the last place (sqrt(variance) of deviations that are all ulps)
statsOf(values) ==
    LET n == Len(values)
        xs == [i \in DOMAIN values |-> InTenths(values[i])]
        sum == SumSeq(xs)
        sq == n * SumSeq([i \in DOMAIN xs |-> xs[i] * xs[i]]) - sum * sum
        ulps == MeanErrorUlps(values)
    IN  [sum |-> sum, n |-> n, sq |-> StdOrOne(sq, n, ulps), ulps |-> ulps]

\* a plausible slip: the statistics are fitted on the rows of the train set
\* alone, taken before the shuffle
calculateFeatureStatsOfTrain(features) ==
    [f \in Range(numericalFeatures) |->
        statsOf([i \in 1 .. (Len(features) * 8) \div 10 |-> features[i][f]])]

calculateFeatureStats(features) ==
    [f \in Range(numericalFeatures) |->
        statsOf([i \in DOMAIN features |-> features[i][f]])]

\* (value - mean) / std = (n * value - sum) / sqrt(sq), kept as the pair
\* (num, sq); a value that is no number gives NaN.  With a std of ulps units
\* in the last place, a value equal to the fitted ones is -ulps / |ulps|, and
\* any other value is its distance from the mean over that tiny std (per is
\* then "ulp": num / (sqrt(sq) units in the last place))
normalized(value, st) ==
    IF value.k # "num" THEN [num |-> 0, sq |-> st.sq, nan |-> TRUE, per |-> "one"]
    ELSE IF st.ulps = 0
    THEN [num |-> st.n * InTenths(value) - st.sum, sq |-> st.sq, nan |-> FALSE,
          per |-> "one"]
    ELSE IF st.n * InTenths(value) = st.sum
    THEN [num |-> -st.ulps, sq |-> st.ulps * st.ulps, nan |-> FALSE, per |-> "one"]
    ELSE [num |-> st.n * InTenths(value) - st.sum, sq |-> st.ulps * st.ulps,
          nan |-> FALSE, per |-> "ulp"]

\* value === category: NaN equals nothing
StrictEquals(a, b) == a.k # "nan" /\ b.k # "nan" /\ a = b

\* a plausible slip: a value outside the categories gets no block at all
oneHotSeenOnly(value, categories) ==
    IF \E i \in DOMAIN categories : value = categories[i]
    THEN [i \in DOMAIN categories |-> IF value = categories[i] THEN 1 ELSE 0]
    ELSE <<>>

oneHot(value, categories) ==
    [i \in DOMAIN categories |-> IF StrictEquals(value, categories[i]) THEN 1 ELSE 0]

transformFeatures(row, stats, mappings) ==
    [i \in DOMAIN numericalFeatures |->
        normalized(row[numericalFeatures[i]], stats[numericalFeatures[i]])]
    \o Concat([i \in DOMAIN categoricalFeatures |->
                  oneHot(row[categoricalFeatures[i]], mappings[categoricalFeatures[i]])])

\* the draws of Math.random() of one shuffle: choice[i] is j of iteration i
ShuffleChoices(length) ==
    {c \in [1 .. length - 1 -> 0 .. length - 1] : \A i \in DOMAIN c : c[i] <= i}

\* a plausible slip: the element at i is overwritten, not exchanged
SwapOverwrites(indices, i, j) ==
    [indices EXCEPT ![i + 1] = indices[j + 1]]

\* [indices[i], indices[j]] = [indices[j], indices[i]]
Swap(indices, i, j) ==
    [indices EXCEPT ![i + 1] = indices[j + 1], ![j + 1] = indices[i + 1]]

RECURSIVE FisherYates(_, _, _)
FisherYates(indices, i, choice) ==
    IF i > 0 THEN FisherYates(Swap(indices, i, choice[i]), i - 1, choice) ELSE indices

shuffleIndices(length, choice) ==
    FisherYates([k \in 1 .. length |-> k - 1], length - 1, choice)

\* Math.floor(features.length * 0.8)
splitIndexOf(length) == (length * 8) \div 10

\* a plausible slip: the guard that the message of the error describes
tooSmallBelowFive(length, splitIndex) == length < 5

\* splitIndex < 1 || features.length - splitIndex < 1
tooSmall(length, splitIndex) == splitIndex < 1 \/ length - splitIndex < 1

\* a plausible slip: the positions, not the shuffled indices, select the rows
pickByPosition(indices, array) == [k \in DOMAIN indices |-> array[k]]

\* trainIndices.map(i => array[i])
pick(indices, array) == [k \in DOMAIN indices |-> array[indices[k] + 1]]

emptyFrame ==
    [called |-> FALSE, ok |-> FALSE, error |-> <<>>, reached |-> "none",
     features |-> <<>>, targets |-> <<>>, transformedFeatures |-> <<>>,
     splitIndex |-> 0, trainIndices |-> <<>>, testIndices |-> <<>>,
     featureStats |-> None, categoricalMappings |-> None, processedData |-> None]

preprocessError(frame, where, parts) ==
    [frame EXCEPT !.called = TRUE, !.ok = FALSE, !.reached = where,
                  !.error = <<"Data preprocessing failed">> \o parts]

\* preprocessData on raw (this.rawData), with the shuffle's draws; the frame
\* holds the locals and what the call assigns to the fields of the loader
preprocessData(raw, oldStats, oldMappings, oldProcessed, choice) ==
    LET start == [emptyFrame EXCEPT !.featureStats = oldStats,
                                    !.categoricalMappings = oldMappings,
                                    !.processedData = oldProcessed]
    IN
    IF raw = None \/ Len(raw[1]) = 0
    THEN [start EXCEPT !.called = TRUE, !.reached = "guard",
                       !.error = <<"No data loaded. Call loadCSV first.">>]
    ELSE
    LET rows == raw[1]
        missing == missingColumns(rows[1])
        features == SelectSeq(rows, validRow)
        targets == [i \in DOMAIN features |-> features[i][targetColumn]]
        n == Len(features)
        mappings == buildCategoricalMappings(features)
        stats == calculateFeatureStats(features)
        transformedFeatures ==
            [i \in DOMAIN features |-> transformFeatures(features[i], stats, mappings)]
        splitIndex == splitIndexOf(n)
        fitted == [start EXCEPT !.features = features, !.targets = targets,
                                !.featureStats = Some(stats),
                                !.categoricalMappings = Some(mappings),
                                !.transformedFeatures = transformedFeatures,
                                !.splitIndex = splitIndex]
    IN
    IF missing # <<>>
    THEN preprocessError(start, "schema", <<"Missing required columns">> \o missing)
    ELSE IF n = 0
    THEN preprocessError([start EXCEPT !.features = features, !.targets = targets],
                         "empty", <<"No valid samples found after filtering missing values">>)
    ELSE IF \E i \in DOMAIN transformedFeatures :
                Len(transformedFeatures[i]) # Len(transformedFeatures[1])
    THEN preprocessError(fitted, "shape",
                         <<"Feature transformation resulted in inconsistent shapes">>)
    ELSE IF tooSmall(n, splitIndex)
    THEN preprocessError(fitted, "split",
             <<"Dataset too small for train/test split. Need at least 5 samples.">>)
    ELSE
    LET shuffledIndices == shuffleIndices(n, choice)
        trainIndices == SubSeq(shuffledIndices, 1, splitIndex)
        testIndices == SubSeq(shuffledIndices, splitIndex + 1, n)
        trainFeatures == pick(trainIndices, transformedFeatures)
        trainTargets == pick(trainIndices, targets)
        testFeatures == pick(testIndices, transformedFeatures)
        testTargets == pick(testIndices, targets)
    IN  [fitted EXCEPT
            !.called = TRUE, !.ok = TRUE, !.reached = "done",
            !.trainIndices = trainIndices, !.testIndices = testIndices,
            !.processedData =
                Some([train |-> [features |-> trainFeatures, targets |-> trainTargets],
                      test |-> [features |-> testFeatures, targets |-> testTargets],
                      inputShape |-> Len(trainFeatures[1])])]

----------------------------------------------------------------------------
(* DataLoader.transformUserInput *)

transformUserInput(userInput, stats, mappings) ==
    IF stats = None \/ mappings = None
    THEN [called |-> TRUE, ok |-> FALSE, vector |-> <<>>, input |-> Some(userInput),
          error |-> <<"Model not trained. Cannot transform user input.">>]
    ELSE [called |-> TRUE, ok |-> TRUE, error |-> <<>>, input |-> Some(userInput),
          vector |-> transformFeatures(userInput, stats[1], mappings[1])]

----------------------------------------------------------------------------
(* Inputs: the CSV texts a fetch may deliver and the records a user may enter *)

FullHeader ==
    <<"top_speed_kmh", "battery_capacity_kWh", "torque_nm", "acceleration_0_100_s",
      "fast_charging_power_kw_dc", "fast_charge_port", "seats", "drivetrain",
      "length_mm", "width_mm", "height_mm", "range_km">>

\* the header with the column seats misspelt
RenamedHeader == [FullHeader EXCEPT ![7] = "seat"]

\* the header with the columns seats and range_km misspelt
TwoRenamedHeader == [FullHeader EXCEPT ![7] = "seat", ![12] = "range"]

MkLine(num, port, drive, target) ==
    <<num, "1", "1", "1", "1", port, "5", drive, "1", "1", "1", target>>

Ports == <<"CCS", "CHAdeMO">>
Drives == <<"AWD", "FWD", "RWD">>

\* the i-th line of a well-formed file; the lines of one file differ from each other
GoodLine(i) ==
    MkLine(NumericTokens[(i % 9) + 2], Ports[(i % 2) + 1], Drives[(i % 3) + 1],
           NumericTokens[((i + 3) % 9) + 2])

\* a line with a numerical feature that is no number
NonNumericLine(i) == [GoodLine(i) EXCEPT ![1] = "abc"]

\* a line whose cell of fast_charge_port is empty
EmptyPortLine(i) == [GoodLine(i) EXCEPT ![6] = ""]

\* a line whose cell of range_km holds a blank only
EmptyTargetLine(i) == [GoodLine(i) EXCEPT ![12] = " "]

\* a line whose acceleration_0_100_s is 2.7
FractionLine(i) == [GoodLine(i) EXCEPT ![4] = "2.7"]

\* a line with fewer cells than the header
ShortLine == <<"1", "CCS">>

AllGood(len) == [i \in 1 .. len |-> GoodLine(i)]

Mixed(len) ==
    [i \in 1 .. len |->
        CASE i % 3 = 1 -> GoodLine(i)
          [] i % 3 = 2 -> NonNumericLine(i)
          [] OTHER     -> ShortLine]

CsvInputs(maxRows) ==
    {<<FullHeader>> \o AllGood(len) : len \in 0 .. maxRows}
    \cup {<<FullHeader>> \o Mixed(len) : len \in 1 .. maxRows}
    \cup {<< <<"">> >>,
          << <<"">>, FullHeader, GoodLine(1), GoodLine(2), <<" ">> >>,
          <<RenamedHeader, GoodLine(1)>>,
          <<TwoRenamedHeader, GoodLine(1), GoodLine(2)>>,
          <<FullHeader, NonNumericLine(1)>>,
          <<FullHeader, GoodLine(1), EmptyPortLine(2)>>,
          <<FullHeader, GoodLine(1), EmptyTargetLine(2)>>,
          <<FullHeader, FractionLine(1), FractionLine(2), FractionLine(3)>>,
          <<FullHeader, ShortLine>>,
          <<FullHeader, ShortLine, GoodLine(1), GoodLine(2)>>}

\* what predict() reads from the form, after parseFloat and parseInt
MkInput(seats, port, drive) ==
    [f \in Range(numericalFeatures) \cup Range(categoricalFeatures) |->
        CASE f = "seats"            -> seats
          [] f = "fast_charge_port" -> port
          [] f = "drivetrain"       -> drive
          [] OTHER                  -> Num(1)]

UserInputs ==
    {MkInput(Num(5), Str("CCS"), Str("AWD")),
     MkInput(Num(4), Str("CHAdeMO"), Str("6WD")),
     MkInput(NaN, Str("CCS"), Str("AWD"))}

\* the messages of the errors the host raises
FetchError == <<"Failed to fetch">>
HttpError == <<"Failed to load ", "Not Found">>
HostError == <<"host error">>

----------------------------------------------------------------------------
(* The initial state: the fields the two constructors assign *)

noLoad == [called |-> FALSE, ok |-> FALSE, error |-> <<>>, kind |-> "none", text |-> <<>>]
noTransform ==
    [called |-> FALSE, ok |-> FALSE, vector |-> <<>>, error |-> <<>>, input |-> None]
StepNames == {"load", "preprocess", "build", "train"}

Init ==
    /\ variant \in {"application", "root"}
    /\ rawData = None
    /\ processedData = None
    /\ featureStats = None
    /\ categoricalMappings = None
    /\ loadResult = noLoad
    /\ prep = emptyFrame
    /\ lastTransform = noTransform
    /\ stage = "Idle"
    /\ pc = "run"
    /\ model = None
    /\ isTraining = FALSE
    /\ isModelReady = FALSE
    /\ trainingHistory = [loss |-> <<>>, valLoss |-> <<>>, mae |-> <<>>]
    /\ epoch = 0
    /\ status = [type |-> "none", text |-> <<>>]
    /\ stepStatus = [s \in StepNames |-> [icon |-> "pending", details |-> <<>>]]
    /\ predictBtnDisabled = TRUE
    /\ ui = [epochValue |-> 0, metrics |-> None, chartDraws |-> <<>>,
             progressShown |-> FALSE, resultShown |-> FALSE, rangeValue |-> None]
    /\ tensors = [train |-> 0, eval |-> 0, inference |-> 0]
    /\ inflight = 0
    /\ alerts = <<>>
    /\ requests = [predict |-> 0, train |-> 0, at |-> "none", log |-> <<>>, input |-> None]

----------------------------------------------------------------------------
(* The feature pipeline driven on its own: a client of the exported class  *)
(* DataLoader calls loadCSV, preprocessData and transformUserInput.        *)

\* loadCSV as one call: fetch rejects, answers with an error status, or
\* delivers a text
loadCSV(outcome) ==
    CASE outcome.kind = "reject" ->
            [ok |-> FALSE, rawData |-> None, error |-> <<"CSV loading failed">> \o FetchError]
      [] outcome.kind = "notOk" ->
            [ok |-> FALSE, rawData |-> None, error |-> <<"CSV loading failed">> \o HttpError]
      [] OTHER -> loadCSVText(outcome.text)

FetchOutcomes(csvs) ==
    {[kind |-> "reject", text |-> <<>>], [kind |-> "notOk", text |-> <<>>]}
    \cup {[kind |-> "text", text |-> t] : t \in csvs}

\* the rows of raw that pass the filter, as preprocessData will find them
validCount(raw) == IF raw = None THEN 0 ELSE Len(SelectSeq(raw[1], validRow))

PipelineLoad ==
    /\ ~loadResult.called
    /\ \E outcome \in FetchOutcomes(CsvInputs(MaxRows)) :
          LET r == loadCSV(outcome)
          IN  /\ loadResult' = [called |-> TRUE, ok |-> r.ok, error |-> r.error,
                                 kind |-> outcome.kind, text |-> outcome.text]
              /\ rawData' = IF outcome.kind = "text" THEN r.rawData ELSE rawData
    /\ UNCHANGED <<variant, processedData, featureStats, categoricalMappings, prep,
                   lastTransform, appVars, requests>>

PipelinePreprocess ==
    /\ ~prep.called
    /\ \E choice \in ShuffleChoices(validCount(rawData)) :
          LET frame == preprocessData(rawData, featureStats, categoricalMappings,
                                      processedData, choice)
          IN  /\ prep' = frame
              /\ featureStats' = frame.featureStats
              /\ categoricalMappings' = frame.categoricalMappings
              /\ processedData' = frame.processedData
    /\ UNCHANGED <<variant, rawData, loadResult, lastTransform, appVars, requests>>

PipelineTransform ==
    /\ \E userInput \in UserInputs :
          lastTransform' = transformUserInput(userInput, featureStats, categoricalMappings)
    /\ UNCHANGED <<variant, rawData, processedData, featureStats, categoricalMappings,
                   loadResult, prep, appVars, requests>>

PipelineNext == PipelineLoad \/ PipelinePreprocess \/ PipelineTransform

\* the loader on its own: the orchestrator's variant plays no part
InitPipeline == Init /\ variant = "application"

SpecPipeline == InitPipeline /\ [][PipelineNext]_vars

----------------------------------------------------------------------------
(* EVRangePredictor: the user interface *)

isApplication == variant = "application"

\* updateStatus(message, type)
updateStatus(message, type) == [type |-> type, text |-> message]

\* updateStepStatus(stepName, status, details); src/app.js has no step display
\* and never marks a step
updateStepStatus(steps, stepName, icon, details) ==
    IF isApplication
    THEN [steps EXCEPT ![stepName] =
             [icon |-> icon, details |-> IF details # <<>> THEN details ELSE @.details]]
    ELSE steps

\* a plausible slip: the catch of initialize starts the session over
initializeCatchRetries(error) ==
    /\ status' = updateStatus(<<"Retrying">> \o error, "error")
    /\ isModelReady' = FALSE
    /\ predictBtnDisabled' = TRUE
    /\ stage' = "Idle"
    /\ pc' = "run"

\* a plausible slip: the catch of initialize logs the error and shows nothing
initializeCatchLogsOnly(error) ==
    /\ status' = status
    /\ isModelReady' = IF isApplication THEN FALSE ELSE isModelReady
    /\ predictBtnDisabled' = IF isApplication THEN TRUE ELSE predictBtnDisabled
    /\ stage' = "Failed"
    /\ pc' = "done"

\* the catch of initialize
initializeCatch(error) ==
    /\ status' = updateStatus(IF isApplication THEN <<"Initialization failed">> \o error
                                               ELSE <<"Error">> \o error, "error")
    /\ isModelReady' = IF isApplication THEN FALSE ELSE isModelReady
    /\ predictBtnDisabled' = IF isApplication THEN TRUE ELSE predictBtnDisabled
    /\ stage' = "Failed"
    /\ pc' = "done"

\* the stage initialize enters after the given one
stageAfter(st) ==
    CASE st = "Loading"       -> "Preprocessing"
      [] st = "Preprocessing" -> "BuildingModel"
      [] st = "BuildingModel" -> "Training"
      [] OTHER                -> "Ready"

\* a plausible slip: the catch around a step does not rethrow, and initialize
\* goes on with the next step
stepFailsContinues(stepName, error) ==
    /\ stepStatus' = updateStepStatus(stepStatus, stepName, "failed", error)
    /\ status' = status
    /\ isModelReady' = (stage = "Training")
    /\ predictBtnDisabled' = (stage # "Training")
    /\ stage' = stageAfter(stage)
    /\ pc' = IF stage = "Training" THEN "done" ELSE "run"

\* the catch around one step of initialize, which rethrows to the outer catch
stepFails(stepName, error) ==
    /\ stepStatus' = updateStepStatus(stepStatus, stepName, "failed", error)
    /\ initializeCatch(error)

----------------------------------------------------------------------------
(* EVRangePredictor.initialize, up to the call of trainModel *)

\* the constructor calls initializeUI, which calls initialize: it runs to
\* the fetch of loadCSV
initialize ==
    /\ stage = "Idle"
    /\ stepStatus' = updateStepStatus(stepStatus, "load", "active", <<>>)
    /\ status' = updateStatus(IF isApplication
                              THEN <<"Loading training data from data.csv...">>
                              ELSE <<"Loading training data...">>, "loading")
    /\ stage' = "Loading"
    /\ pc' = "fetch"
    /\ UNCHANGED <<variant, dlVars, model, isTraining, isModelReady, trainingHistory,
                   epoch, predictBtnDisabled, ui, tensors, inflight, alerts, requests>>

\* await fetch(filePath) settles
fetchSettles ==
    /\ stage = "Loading"
    /\ pc = "fetch"
    /\ \E kind \in {"ok", "notOk", "reject"} :
          IF kind = "ok"
          THEN /\ pc' = "text"
               /\ UNCHANGED <<dlVars, stage, status, stepStatus, isModelReady,
                              predictBtnDisabled>>
          ELSE LET r == loadCSV([kind |-> kind, text |-> <<>>])
               IN  /\ loadResult' = [called |-> TRUE, ok |-> FALSE, error |-> r.error,
                                      kind |-> kind, text |-> <<>>]
                   /\ stepFails("load", r.error)
                   /\ UNCHANGED <<rawData, processedData, featureStats,
                                  categoricalMappings, prep, lastTransform>>
    /\ UNCHANGED <<variant, model, isTraining, trainingHistory, epoch, ui, tensors,
                   inflight, alerts, requests>>

\* await response.text() settles; on a text loadCSV parses it and initialize
\* goes on to announce the preprocessing
textSettles ==
    /\ stage = "Loading"
    /\ pc = "text"
    /\ \E outcome \in FetchOutcomes(CsvInputs(MaxAppRows)) :
          /\ outcome.kind \in {"text", "reject"}
          /\ LET r == loadCSV(outcome)
             IN  /\ loadResult' = [called |-> TRUE, ok |-> r.ok, error |-> r.error,
                                    kind |-> outcome.kind, text |-> outcome.text]
                 /\ rawData' = IF outcome.kind = "text" THEN r.rawData ELSE rawData
                 /\ IF r.ok
                    THEN /\ stepStatus' =
                                updateStepStatus(
                                    updateStepStatus(stepStatus, "load", "complete",
                                                     <<"samples loaded">>),
                                    "preprocess", "active", <<>>)
                         /\ status' = IF isApplication
                                      THEN updateStatus(
                                          <<"Preprocessing features and splitting dataset...">>,
                                          "loading")
                                      ELSE status
                         /\ stage' = "Preprocessing"
                         /\ pc' = "run"
                         /\ UNCHANGED <<isModelReady, predictBtnDisabled>>
                    ELSE stepFails("load", r.error)
    /\ UNCHANGED <<variant, processedData, featureStats, categoricalMappings, prep,
                   lastTransform, model, isTraining, trainingHistory, epoch, ui, tensors,
                   inflight, alerts, requests>>

\* processedData = this.dataLoader.preprocessData(), and the announcement of
\* the model building
preprocess ==
    /\ stage = "Preprocessing"
    /\ \E choice \in ShuffleChoices(validCount(rawData)) :
          LET frame == preprocessData(rawData, featureStats, categoricalMappings,
                                      processedData, choice)
          IN  /\ prep' = frame
              /\ featureStats' = frame.featureStats
              /\ categoricalMappings' = frame.categoricalMappings
              /\ processedData' = frame.processedData
              /\ IF frame.ok
                 THEN /\ stepStatus' =
                             updateStepStatus(
                                 updateStepStatus(stepStatus, "preprocess", "complete",
                                                  <<"features, train samples">>),
                                 "build", "active", <<>>)
                      /\ status' = updateStatus(
                             IF isApplication
                             THEN <<"Building neural network architecture...">>
                             ELSE <<"Building neural network model...">>, "loading")
                      /\ stage' = "BuildingModel"
                      /\ pc' = "run"
                      /\ UNCHANGED <<isModelReady, predictBtnDisabled>>
                 ELSE stepFails("preprocess", frame.error)
    /\ UNCHANGED <<variant, rawData, loadResult, lastTransform, model, isTraining,
                   trainingHistory, epoch, ui, tensors, inflight, alerts, requests>>

\* the error buildModel throws for a failure with the given message
buildError(message) ==
    IF isApplication THEN <<"Model building failed">> \o message ELSE message

\* buildModel(inputShape): the library may throw before or after this.model is
\* assigned; src/application/app.js then awaits tf.nextFrame(), src/app.js
\* returns and initialize announces the training
buildModel ==
    /\ stage = "BuildingModel"
    /\ pc = "run"
    /\ \E outcome \in {"ok", "sequentialThrows", "compileThrows"} :
          LET inputShape == processedData[1].inputShape
          IN  IF isApplication /\ inputShape <= 0
              THEN /\ model' = model
                   /\ stepFails("build", buildError(
                          <<"Invalid input shape. Must be a positive integer.">>))
              ELSE IF outcome # "ok"
              THEN /\ model' = IF outcome = "sequentialThrows" THEN model
                               ELSE Some([compiled |-> FALSE, inputShape |-> inputShape])
                   /\ stepFails("build", buildError(HostError))
              ELSE /\ model' = Some([compiled |-> TRUE, inputShape |-> inputShape])
                   /\ IF isApplication
                      THEN /\ pc' = "nextFrame"
                           /\ UNCHANGED <<stage, status>>
                      ELSE /\ stage' = "Training"
                           /\ pc' = "run"
                           /\ status' = updateStatus(<<"Training model...">>, "loading")
                   /\ UNCHANGED <<stepStatus, isModelReady, predictBtnDisabled>>
    /\ UNCHANGED <<variant, dlVars, isTraining, trainingHistory, epoch, ui, tensors,
                   inflight, alerts, requests>>

\* src/application/app.js: the tf.nextFrame() of buildModel resolves, and
\* initialize announces the training
buildFrame ==
    /\ stage = "BuildingModel"
    /\ pc = "nextFrame"
    /\ stepStatus' = updateStepStatus(
                         updateStepStatus(stepStatus, "build", "complete", <<"parameters">>),
                         "train", "active", <<>>)
    /\ status' = updateStatus(<<"Training model on dataset...">>, "loading")
    /\ ui' = [ui EXCEPT !.progressShown = TRUE]
    /\ stage' = "Training"
    /\ pc' = "run"
    /\ UNCHANGED <<variant, dlVars, model, isTraining, isModelReady, trainingHistory,
                   epoch, predictBtnDisabled, tensors, inflight, alerts, requests>>

----------------------------------------------------------------------------
(* EVRangePredictor.trainModel, and the end of initialize *)

Undefined == [k |-> "undef", n |-> 0, s |-> ""]

\* the logs model.fit may hand to onEpochEnd
EpochLogs ==
    {[loss |-> Num(3), val_loss |-> Num(4), mae |-> Num(1)],
     [loss |-> Num(2), val_loss |-> Num(3), mae |-> Num(1)],
     [loss |-> Num(2), val_loss |-> Undefined, mae |-> Num(1)],
     [loss |-> Num(2), val_loss |-> Num(3), mae |-> Undefined]}

TypeError == <<"TypeError: cannot read properties of undefined">>

emptyHistory == [loss |-> <<>>, valLoss |-> <<>>, mae |-> <<>>]

\* the three push calls of onEpochEnd
pushHistory(history, logs) ==
    [loss |-> Append(history.loss, logs.loss),
     valLoss |-> Append(history.valLoss, logs.val_loss),
     mae |-> Append(history.mae, logs.mae)]

\* the error trainModel throws from its catch for a failure with the message
trainError(message) ==
    IF isApplication THEN <<"Training failed">> \o message ELSE message

\* a plausible slip: the catch of trainModel does not clear the flag
trainModelCatchKeepsFlag(message, live) ==
    /\ isTraining' = TRUE
    /\ tensors' = [tensors EXCEPT !.train = IF isApplication THEN 0 ELSE live]
    /\ stepFails("train", trainError(message))

\* the catch of trainModel, and the catches of initialize it throws to; live
\* are the training tensors that exist when the error is raised
trainModelCatch(message, live) ==
    /\ isTraining' = FALSE
    /\ tensors' = [tensors EXCEPT !.train = IF isApplication THEN 0 ELSE live]
    /\ stepFails("train", trainError(message))

\* (epoch + 1) % 5 === 0 || epoch === totalEpochs - 1, epoch counted from 0
chartDue(e) == (e + 1) % 5 = 0 \/ e = TotalEpochs - 1

\* trainModel(data) as initialize calls it, to the await of model.fit: the
\* checks, the flag, the reset of the history and the four tensors
trainModelStart ==
    /\ stage = "Training"
    /\ pc = "run"
    /\ \E outcome \in {"ok", "conversionThrows"}, created \in 0 .. 3 :
          LET data == processedData[1]
              emptySet(set) == Len(set.features) = 0 \/ Len(set.targets) = 0
          IN  IF model = None
              THEN /\ stepFails("train", <<"Model not built">>)
                   /\ UNCHANGED <<isTraining, trainingHistory, tensors, epoch>>
              ELSE /\ trainingHistory' = emptyHistory
                   /\ IF isApplication /\ emptySet(data.train)
                      THEN /\ trainModelCatch(
                                  <<"Invalid training  empty features or targets">>, 0)
                           /\ epoch' = epoch
                      ELSE IF isApplication /\ emptySet(data.test)
                      THEN /\ trainModelCatch(
                                  <<"Invalid test  empty features or targets">>, 0)
                           /\ epoch' = epoch
                      ELSE IF outcome = "conversionThrows"
                      THEN /\ trainModelCatch(
                                  IF isApplication
                                  THEN <<"Tensor conversion failed">> \o HostError
                                  ELSE HostError, created)
                           /\ epoch' = epoch
                      ELSE IF isApplication
                              /\ Len(data.train.features) # Len(data.train.targets)
                      THEN /\ trainModelCatch(<<"Training shape mismatch">>, 4)
                           /\ epoch' = epoch
                      ELSE IF isApplication
                              /\ Len(data.test.features) # Len(data.test.targets)
                      THEN /\ trainModelCatch(<<"Test shape mismatch">>, 4)
                           /\ epoch' = epoch
                      ELSE /\ isTraining' = TRUE
                           /\ tensors' = [tensors EXCEPT !.train = 4]
                           /\ epoch' = 0
                           /\ pc' = "fit"
                           /\ UNCHANGED <<stage, status, stepStatus, isModelReady,
                                          predictBtnDisabled>>
    /\ UNCHANGED <<variant, dlVars, model, ui, inflight, alerts, requests>>

\* model.fit ends an epoch and calls onEpochEnd(epoch, logs), which runs to
\* its await of tf.nextFrame(), returns early, or throws into fit
onEpochEnd ==
    /\ stage = "Training"
    /\ pc = "fit"
    /\ epoch < TotalEpochs
    /\ \E logs \in EpochLogs :
          LET invalid == logs.loss = Undefined \/ logs.val_loss = Undefined
              throws == Undefined \in {logs.loss, logs.val_loss, logs.mae}
              shown == [ui EXCEPT !.epochValue = epoch + 1]
          IN  IF isApplication /\ invalid
              THEN /\ epoch' = epoch + 1
                   /\ UNCHANGED <<trainingHistory, ui, pc, stage, status, stepStatus,
                                  isTraining, isModelReady, predictBtnDisabled, tensors>>
              ELSE /\ trainingHistory' = pushHistory(trainingHistory, logs)
                   /\ epoch' = epoch + 1
                   /\ IF throws
                      THEN /\ ui' = shown
                           /\ trainModelCatch(TypeError, tensors.train)
                      ELSE /\ ui' = [shown EXCEPT
                                       !.metrics = Some(logs),
                                       !.chartDraws = IF chartDue(epoch)
                                                      THEN Append(@, epoch + 1) ELSE @]
                           /\ pc' = "epochFrame"
                           /\ UNCHANGED <<stage, status, stepStatus, isTraining,
                                          isModelReady, predictBtnDisabled, tensors>>
    /\ UNCHANGED <<variant, dlVars, model, inflight, alerts, requests>>

\* the tf.nextFrame() of onEpochEnd resolves: fit goes on
epochFrame ==
    /\ stage = "Training"
    /\ pc = "epochFrame"
    /\ pc' = "fit"
    /\ UNCHANGED <<variant, dlVars, stage, model, isTraining, isModelReady,
                   trainingHistory, epoch, status, stepStatus, predictBtnDisabled, ui,
                   tensors, inflight, alerts, requests>>

\* the library fails during an epoch: await model.fit rejects
fitRejects ==
    /\ stage = "Training"
    /\ pc = "fit"
    /\ trainModelCatch(HostError, tensors.train)
    /\ UNCHANGED <<variant, dlVars, model, trainingHistory, epoch, ui, inflight, alerts,
                   requests>>

\* await model.fit resolves after the last epoch; model.evaluate runs, or
\* throws, and trainModel awaits evalResult[0].data()
fitResolves ==
    /\ stage = "Training"
    /\ pc = "fit"
    /\ epoch = TotalEpochs
    /\ \E outcome \in {"ok", "evaluateThrows"} :
          IF outcome = "ok"
          THEN /\ tensors' = [tensors EXCEPT !.eval = 2]
               /\ pc' = "evalLoss"
               /\ UNCHANGED <<stage, status, stepStatus, isTraining, isModelReady,
                              predictBtnDisabled>>
          ELSE trainModelCatch(HostError, tensors.train)
    /\ UNCHANGED <<variant, dlVars, model, trainingHistory, epoch, ui, inflight, alerts,
                   requests>>

\* await evalResult[0].data() or await evalResult[1].data() settles; after
\* the second, trainModel disposes its tensors and returns, and initialize
\* declares the model ready
evalDataSettles ==
    /\ stage = "Training"
    /\ pc \in {"evalLoss", "evalMAE"}
    /\ \E outcome \in {"resolve", "reject"} :
          IF outcome = "reject"
          THEN trainModelCatch(HostError, tensors.train)
          ELSE IF pc = "evalLoss"
          THEN /\ pc' = "evalMAE"
               /\ UNCHANGED <<stage, status, stepStatus, isTraining, isModelReady,
                              predictBtnDisabled, tensors>>
          ELSE /\ tensors' = [tensors EXCEPT !.train = 0, !.eval = 0]
               /\ isTraining' = FALSE
               /\ stepStatus' = updateStepStatus(stepStatus, "train", "complete",
                                                 <<"Training completed successfully">>)
               /\ status' = updateStatus(
                      <<"Model ready! Enter vehicle specifications to predict range.">>,
                      "success")
               /\ isModelReady' = TRUE
               /\ predictBtnDisabled' = FALSE
               /\ stage' = "Ready"
               /\ pc' = "done"
    /\ UNCHANGED <<variant, dlVars, model, trainingHistory, epoch, ui, inflight, alerts,
                   requests>>

----------------------------------------------------------------------------
(* EVRangePredictor.predict *)

\* the keys of userInput in the order of Object.entries
userInputKeys ==
    <<"top_speed_kmh", "battery_capacity_kWh", "torque_nm", "acceleration_0_100_s",
      "fast_charging_power_kw_dc", "fast_charge_port", "seats", "drivetrain",
      "length_mm", "width_mm", "height_mm">>

\* a plausible slip: the validation tests for null and undefined alone
invalidValueNullOnly(v) == v.k = "undef"

\* value === null || value === undefined || (typeof value === 'number' && isNaN(value))
invalidValue(v) == v.k \in {"undef", "nan"}

\* the keys the validation loop would reject, in its order
invalidKeys(userInput) ==
    SelectSeq(userInputKeys, LAMBDA key : invalidValue(userInput[key]))

\* the values prediction.data() may deliver, in tenths of a kilometre
PredictionTenths == {3994, 3995}

\* Math.round of a value given in tenths
MathRound(tenths) == (tenths + 5) \div 10

\* a plausible slip: the guard looks at isTraining alone
predictGuardTrainingOnly == isTraining

\* !this.isModelReady || this.isTraining
predictGuard == ~isModelReady \/ isTraining

\* the event loop runs a task only between two runs of JavaScript
atYieldPoint == pc # "run"

\* a plausible slip: the catch of predict gives the session up
predictCatchTerminal(message) ==
    /\ alerts' = Append(alerts, <<"Prediction failed">> \o message)
    /\ isModelReady' = FALSE
    /\ predictBtnDisabled' = TRUE
    /\ status' = updateStatus(<<"Prediction failed">> \o message, "error")
    /\ stage' = "Failed"
    /\ UNCHANGED pc

\* the catch of predict: console.error and alert, nothing else
predictCatch(message) ==
    /\ alerts' = Append(alerts, <<"Prediction failed">> \o message)
    /\ UNCHANGED <<stage, pc, isModelReady, status, predictBtnDisabled>>

\* the submit listener of the form calls predict(), which returns at once or
\* runs to its await of prediction.data(), or to its catch
predict ==
    /\ atYieldPoint
    /\ requests.predict < MaxPredicts
    /\ IF predictGuard
       THEN /\ requests' = [requests EXCEPT !.predict = @ + 1, !.at = stage]
            /\ UNCHANGED <<lastTransform, tensors, inflight, alerts, stage, pc,
                           isModelReady, status, predictBtnDisabled>>
       ELSE \E userInput \in UserInputs, outcome \in {"ok", "predictThrows"} :
               LET bad == invalidKeys(userInput)
                   t == transformUserInput(userInput, featureStats, categoricalMappings)
                   logged(what) ==
                       requests' = [requests EXCEPT !.predict = @ + 1, !.at = stage,
                                                    !.log = Append(@, what),
                                                    !.input = Some(userInput)]
               IN  IF bad # <<>>
                   THEN /\ predictCatch(<<"Invalid input for", bad[1]>>)
                        /\ logged("failed")
                        /\ UNCHANGED <<lastTransform, tensors, inflight>>
                   ELSE /\ lastTransform' = t
                        /\ IF ~t.ok
                           THEN /\ predictCatch(t.error)
                                /\ logged("failed")
                                /\ UNCHANGED <<tensors, inflight>>
                           ELSE IF outcome = "predictThrows"
                           THEN /\ predictCatch(HostError)
                                /\ logged("failed")
                                /\ UNCHANGED <<tensors, inflight>>
                           ELSE /\ tensors' = [tensors EXCEPT !.inference = @ + 1]
                                /\ inflight' = inflight + 1
                                /\ logged("awaiting")
                                /\ UNCHANGED <<alerts, stage, pc, isModelReady, status,
                                               predictBtnDisabled>>
    /\ UNCHANGED <<variant, rawData, processedData, featureStats, categoricalMappings,
                   loadResult, prep, model, isTraining, trainingHistory, epoch,
                   stepStatus, ui>>

\* await prediction.data() of one suspended predict() settles: the value is
\* rounded, the tensor disposed and the result shown, or the catch alerts
predictionSettles ==
    /\ atYieldPoint
    /\ inflight > 0
    /\ inflight' = inflight - 1
    /\ \/ \E tenths \in PredictionTenths :
             /\ tensors' = [tensors EXCEPT !.inference = @ - 1]
             /\ ui' = [ui EXCEPT !.rangeValue = Some(MathRound(tenths)),
                                 !.resultShown = TRUE]
             /\ requests' = [requests EXCEPT !.log = Append(@, "shown")]
             /\ UNCHANGED <<alerts, stage, pc, isModelReady, status, predictBtnDisabled>>
       \/ /\ predictCatch(HostError)
          /\ requests' = [requests EXCEPT !.log = Append(@, "failed")]
          /\ UNCHANGED <<tensors, ui>>
    /\ UNCHANGED <<variant, dlVars, model, isTraining, trainingHistory, epoch,
                   stepStatus>>

\* a direct call of trainModel(data) while the run of initialize is suspended
\* between two epochs: the flag is set and the history reset before anything is
\* checked; the library refuses a fit while another is ongoing, and the catch
\* clears the flag and throws to the caller
trainModelAgain ==
    /\ atYieldPoint
    /\ stage = "Training"
    /\ pc \in {"fit", "epochFrame"}
    /\ isTraining
    /\ requests.train < MaxTrainCalls
    /\ requests' = [requests EXCEPT !.train = @ + 1]
    /\ trainingHistory' = emptyHistory
    /\ isTraining' = FALSE
    /\ tensors' = [tensors EXCEPT !.train = IF isApplication THEN 0 ELSE @ + 4]
    /\ UNCHANGED <<variant, dlVars, stage, pc, model, isModelReady, epoch, status,
                   stepStatus, predictBtnDisabled, ui, inflight, alerts>>

----------------------------------------------------------------------------
(* The application as deployed: the constructor starts initialize once, and  *)
(* the form may be submitted at any yield point.                            *)

Next ==
    \/ initialize
    \/ fetchSettles
    \/ textSettles
    \/ preprocess
    \/ buildModel
    \/ buildFrame
    \/ trainModelStart
    \/ onEpochEnd
    \/ epochFrame
    \/ fitRejects
    \/ fitResolves
    \/ evalDataSettles
    \/ predict
    \/ predictionSettles

Spec == Init /\ [][Next]_vars

(* The class used through its methods: as above, and trainModel may be      *)
(* called again while a training run is in flight.                          *)

NextAPI == Next \/ trainModelAgain

SpecAPI == Init /\ [][NextAPI]_vars

(* The session under a host that answers: the page load runs initialize, a  *)
(* continuation that is ready runs, and every pending call into the host    *)
(* (fetch, response.text, tf.nextFrame, model.fit and its callbacks, the    *)
(* data() of the evaluation) eventually returns or throws, so a step of the *)
(* session that stays possible is eventually taken. Predict requests are    *)
(* the user's and are under no such obligation.                             *)

\* the steps of the session that wait for the host or for the page load
SessionStep ==
    \/ initialize
    \/ fetchSettles
    \/ textSettles
    \/ buildModel
    \/ buildFrame
    \/ trainModelStart
    \/ onEpochEnd
    \/ epochFrame
    \/ fitRejects
    \/ fitResolves
    \/ evalDataSettles

\* preprocessData is synchronous: it returns or throws in the turn that
\* resumed initialize after loadCSV. preprocess is the one action of Next that
\* changes the stage from Preprocessing, and it is possible in every state of
\* that stage, so the condition is stated on the stage: the call returns, and
\* initialize goes on to build the model, or throws, and the session fails.
preprocessReturns ==
    /\ stage = "Preprocessing"
    /\ stage' \in {"BuildingModel", "Failed"}

SpecFair ==
    /\ Init
    /\ [][Next]_vars
    /\ WF_vars(SessionStep)
    /\ WF_stage(preprocessReturns)

----------------------------------------------------------------------------
(* Claims about the train/test split, checked under SpecPipeline *)

InsufficientDataError ==
    <<"Data preprocessing failed",
      "Dataset too small for train/test split. Need at least 5 samples.">>

\* floor(0.8 * n), defined by its property and not by the code's expression
FloorFourFifths(n) == CHOOSE k \in 0 .. n : 10 * k <= 8 * n /\ 8 * n < 10 * (k + 1)

\* C1: after a successful preprocessData on n valid rows, whatever the shuffle
\* drew, the train indices followed by the test indices hold every index of
\* 0 .. n-1 exactly once: no overlap, no repetition, no omission.
C1_PartitionIsPermutation ==
    prep.ok =>
        LET n == Len(prep.features)
            all == prep.trainIndices \o prep.testIndices
        IN  /\ Len(all) = n
            /\ \A k \in DOMAIN all : all[k] \in 0 .. n - 1
            /\ \A i \in 0 .. n - 1 : Cardinality({k \in DOMAIN all : all[k] = i}) = 1
            /\ Range(prep.trainIndices) \cap Range(prep.testIndices) = {}

\* C1 witness: a split of five rows whose shuffle moved some index
C1_Witness ==
    /\ prep.ok
    /\ Len(prep.features) >= 5
    /\ \E k \in DOMAIN prep.trainIndices : prep.trainIndices[k] # k - 1

\* C2: after a successful preprocessData on n valid rows the train set has
\* floor(0.8 n) elements and the test set the other n - floor(0.8 n); each set
\* has as many targets as feature vectors, and the i-th target and the i-th
\* feature vector of a set come from the same valid row.
C2_SplitSizesAndPairing ==
    prep.ok =>
        LET n == Len(prep.features)
            k == FloorFourFifths(n)
            pd == processedData[1]
            fromRow(set, indices) ==
                \A i \in DOMAIN set.features :
                    LET row == prep.features[indices[i] + 1]
                    IN  /\ set.features[i]
                            = transformFeatures(row, featureStats[1], categoricalMappings[1])
                        /\ set.targets[i] = row[targetColumn]
        IN  /\ Len(pd.train.features) = k
            /\ Len(pd.train.targets) = k
            /\ Len(pd.test.features) = n - k
            /\ Len(pd.test.targets) = n - k
            /\ fromRow(pd.train, prep.trainIndices)
            /\ fromRow(pd.test, prep.testIndices)

\* C2 witness: five rows split four to one, the shuffle having moved some index
C2_Witness ==
    /\ prep.ok
    /\ Len(prep.features) = 5
    /\ Len(processedData[1].train.targets) = 4
    /\ Len(processedData[1].test.targets) = 1
    /\ prep.testIndices # <<4>>

C4_NeedsAtLeastFive ==
    prep.called =>
        LET n == Len(prep.features)
        IN  /\ n \in 1 .. 4 => prep.error = InsufficientDataError
            /\ prep.ok => n >= 5

----------------------------------------------------------------------------
(* Claims about the orchestrator, checked under Spec unless said otherwise *)

StageOrder == <<"Idle", "Loading", "Preprocessing", "BuildingModel", "Training", "Ready">>

StepOrder == <<"load", "preprocess", "build", "train">>

\* C5: a form submit that arrives in a state other than Ready, or while
\* isTraining is true, changes nothing: no input is transformed, no tensor is
\* created, no request is left in flight, no flag, status or display changes
\* and nothing is alerted.  Submits arrive only at yield points.
C5_PredictIgnoredUnlessReady ==
    [][(requests'.predict # requests.predict /\ (stage # "Ready" \/ isTraining))
         => UNCHANGED <<variant, dlVars, appVars>>]_vars

\* C5 witness: the form was submitted twice before the model was ready, the
\* last time between two epochs of the training
C5_Witness ==
    /\ requests.predict = 2
    /\ requests.at = "Training"
    /\ pc = "epochFrame"
    /\ isTraining
    /\ alerts = <<>>
    /\ inflight = 0

\* C6 (the claim as stated), under SpecAPI: a call of trainModel made while a
\* training run is in flight is rejected or ignored: the history of the running
\* run is not reset by it.
C6_SecondTrainIgnored ==
    [][(requests'.train # requests.train /\ isTraining)
         => UNCHANGED trainingHistory]_vars

\* C7: the stage changes only to the next one of Idle, Loading, Preprocessing,
\* BuildingModel, Training, Ready, or to Failed; a stage is entered only when
\* the one before it has succeeded; and isModelReady is true, or the predict
\* button enabled, only in Ready, after all four steps have succeeded.
C7_StagesInOrder ==
    /\ [][stage' # stage =>
            /\ \/ \E i \in 1 .. Len(StageOrder) - 1 :
                     stage = StageOrder[i] /\ stage' = StageOrder[i + 1]
               \/ stage' = "Failed" /\ stage \in {"Loading", "Preprocessing",
                                                   "BuildingModel", "Training"}
            /\ stage' = "Preprocessing" => loadResult'.ok /\ rawData' # None
            /\ stage' = "BuildingModel" => prep'.ok /\ processedData' # None
            /\ stage' = "Training" => model' # None /\ model'[1].compiled
            /\ stage' = "Ready" => epoch' = TotalEpochs /\ ~isTraining']_vars
    /\ [](isModelReady \/ ~predictBtnDisabled =>
            /\ stage = "Ready"
            /\ loadResult.ok
            /\ prep.ok
            /\ model # None /\ model[1].compiled
            /\ epoch = TotalEpochs
            /\ ~isTraining)

\* C7 witness: the session is ready, every stage having been passed
C7_Witness ==
    /\ stage = "Ready"
    /\ isModelReady
    /\ ~predictBtnDisabled
    /\ status.type = "success"

\* C8: once a step of initialize has failed (the status shows an error), no
\* step is started or retried, isModelReady stays false, and every later form
\* submit changes nothing.
C8_FailureIsTerminal ==
    /\ [][status.type = "error" => UNCHANGED <<variant, dlVars, appVars>>]_vars
    /\ [](status.type = "error" => stage = "Failed" /\ ~isModelReady /\ inflight = 0)
    /\ [](stage = "Failed" => status.type = "error")

\* C8 witness: the form was submitted after the training had failed
C8_Witness ==
    /\ stage = "Failed"
    /\ requests.at = "Failed"
    /\ requests.predict = 2
    /\ stepStatus["train"].icon = "failed"
    /\ ~isModelReady

\* the wrapper a stage puts around the message of an error it raises
StageWrapper(step) ==
    CASE step = "load"       -> "CSV loading failed"
      [] step = "preprocess" -> "Data preprocessing failed"
      [] step = "build"      -> "Model building failed"
      [] OTHER               -> "Training failed"

\* the step list shows the i-th step failed with a message, the earlier ones
\* complete and the later ones never started
StepListShowsFailureOf(i) ==
    /\ stepStatus[StepOrder[i]].icon = "failed"
    /\ stepStatus[StepOrder[i]].details # <<>>
    /\ \A j \in 1 .. i - 1 : stepStatus[StepOrder[j]].icon = "complete"
    /\ \A j \in i + 1 .. Len(StepOrder) : stepStatus[StepOrder[j]].icon = "pending"

\* C9 (the claim as stated): when a step has raised an error, the status shows
\* an error with the message, and the failing stage is named: it alone is
\* marked failed, with the earlier steps complete and no later step ever
\* active, or at the least the message shown carries the stage's wrapper.
C9_StageAndMessageSurfaced ==
    stage = "Failed" =>
        /\ status.type = "error"
        /\ Len(status.text) >= 2
        /\ \E i \in DOMAIN StepOrder :
              \/ /\ StepListShowsFailureOf(i)
                 /\ status.text = <<status.text[1]>> \o stepStatus[StepOrder[i]].details
              \/ StageWrapper(StepOrder[i]) \in Range(status.text)

\* C10 (the claim as stated): after a Predict request has failed the
\* orchestrator is in the Failed state.
C10_PredictFailureIsTerminal ==
    alerts # <<>> => stage = "Failed" /\ ~isModelReady

\* C10 as amended: a failure inside Predict is reported by an alert and is not
\* terminal: the step that raises the alert happens in Ready and leaves the
\* stage, the flags, the status, the button, the model and the fitted state
\* as they are, so the session stays Ready and later requests are served.
C10_PredictFailureKeepsReady ==
    /\ [][alerts' # alerts =>
            /\ Len(alerts') = Len(alerts) + 1
            /\ alerts'[Len(alerts')][1] = "Prediction failed"
            /\ stage = "Ready" /\ isModelReady /\ ~isTraining
            /\ UNCHANGED <<stage, pc, isModelReady, isTraining, status, stepStatus,
                           predictBtnDisabled, model, featureStats, categoricalMappings,
                           processedData, trainingHistory>>]_vars
    /\ [](alerts # <<>> =>
            /\ stage = "Ready"
            /\ isModelReady
            /\ ~predictBtnDisabled
            /\ status.type = "success")

\* C10 witness: a Predict request failed validation, and the next request
\* was served and its range shown
C10_Witness ==
    /\ requests.log = <<"failed", "awaiting", "shown">>
    /\ Len(alerts) = 1
    /\ alerts[1] = <<"Prediction failed", "Invalid input for", "seats">>
    /\ ui.resultShown
    /\ stage = "Ready"

----------------------------------------------------------------------------
(* Claims about the training run and the tensors, checked under Spec *)

\* C11 (the claim as stated): whenever trainModel has completed successfully
\* (initialize has declared the model ready), each of the three series of the
\* training history holds exactly one entry per epoch of the run.
C11_HistoryHoldsEveryEpoch ==
    stage = "Ready" =>
        /\ Len(trainingHistory.loss) = TotalEpochs
        /\ Len(trainingHistory.valLoss) = TotalEpochs
        /\ Len(trainingHistory.mae) = TotalEpochs

\* C12 (the claim as stated): when trainModel has returned or thrown, so that
\* initialize has ended in Ready or in Failed, none of the tensors trainModel
\* created is alive: neither trainX, trainY, testX, testY nor the tensors of
\* the evaluation result.
C12_TrainingTensorsDisposed ==
    stage \in {"Ready", "Failed"} => tensors.train = 0 /\ tensors.eval = 0

\* C13 (the claim as stated): every tensor a Predict request created is
\* disposed when the request finishes, on every exit path: whenever no
\* Predict request is suspended at its await, no inference tensor is alive.
C13_InferenceTensorsDisposed ==
    inflight = 0 => tensors.inference = 0

----------------------------------------------------------------------------
(* Claims about Predict's validation, checked under Spec *)

\* the fields of a user record that are null, undefined or NaN
OffendingFields(userInput) == {f \in DOMAIN userInput : userInput[f].k \in {"undef", "nan"}}

\* C14: in Ready, a Predict request whose record has a field that is null,
\* undefined or NaN ends with the alert of an error "Invalid input for <field>"
\* that names one of the offending fields (seats when seats alone is bad);
\* transformUserInput is not called, no tensor is created, no request is left
\* in flight, and the result display, the flags, the status and the fitted
\* state stay as they are.
C14_InvalidInputFailsValidation ==
    [][(/\ requests'.predict # requests.predict
        /\ stage = "Ready" /\ isModelReady /\ ~isTraining
        /\ OffendingFields(requests'.input[1]) # {})
         => /\ Len(alerts') = Len(alerts) + 1
            /\ LET a == alerts'[Len(alerts')]
               IN  /\ Len(a) = 3
                   /\ a[1] = "Prediction failed"
                   /\ a[2] = "Invalid input for"
                   /\ a[3] \in OffendingFields(requests'.input[1])
            /\ UNCHANGED <<lastTransform, tensors, inflight, ui, stage, pc, isModelReady,
                           isTraining, status, stepStatus, predictBtnDisabled, model,
                           featureStats, categoricalMappings, processedData>>]_vars

\* C14 witness: the first request in Ready had no number of seats; it was
\* refused by the validation, naming seats, with nothing transformed or shown
C14_Witness ==
    /\ stage = "Ready"
    /\ requests.predict = 1
    /\ requests.input = Some(MkInput(NaN, Str("CCS"), Str("AWD")))
    /\ alerts = << <<"Prediction failed", "Invalid input for", "seats">> >>
    /\ lastTransform = noTransform
    /\ tensors.inference = 0
    /\ ~ui.resultShown

----------------------------------------------------------------------------
(* Claims about the encoding and the filtering, checked under SpecPipeline *)

\* the one-hot block of the c-th categorical feature in a transformed vector
BlockOf(vector, mappings, c) ==
    LET before == SumSeq([j \in 1 .. c - 1 |-> Len(mappings[categoricalFeatures[j]])])
        offset == Len(numericalFeatures) + before
    IN  SubSeq(vector, offset + 1, offset + Len(mappings[categoricalFeatures[c]]))

\* the blocks of the vector made from row are as the claim says: as wide as the
\* vocabulary, all zero for a value outside it, and for a value in it a single
\* 1 at the position of the value
BlocksEncode(row, vector, mappings) ==
    \A c \in DOMAIN categoricalFeatures :
        LET vocabulary == mappings[categoricalFeatures[c]]
            value == row[categoricalFeatures[c]]
            block == BlockOf(vector, mappings, c)
        IN  /\ Len(block) = Len(vocabulary)
            /\ \A p \in DOMAIN block :
                  block[p] = IF vocabulary[p] = value THEN 1 ELSE 0
            /\ value \in Range(vocabulary) => Cardinality({p \in DOMAIN block : block[p] = 1}) = 1
            /\ value \notin Range(vocabulary) => \A p \in DOMAIN block : block[p] = 0

\* C15 (the claim as stated): every vector transformFeatures made, for a row of
\* the data or for a user record, has for each categorical feature a block as
\* wide as the fitted vocabulary, which is all zero when the value is not in
\* the vocabulary and has exactly one 1, at the position of the value in the
\* sorted vocabulary, when it is; no error is raised for an unseen value.
C15_OneHotBlocks ==
    /\ [](prep.ok =>
            \A i \in DOMAIN prep.features :
                BlocksEncode(prep.features[i], prep.transformedFeatures[i],
                             categoricalMappings[1]))
    /\ [](lastTransform.ok =>
            BlocksEncode(lastTransform.input[1], lastTransform.vector,
                         categoricalMappings[1]))
    /\ [][(/\ lastTransform' # lastTransform
           /\ featureStats # None
           /\ categoricalMappings # None) => lastTransform'.ok]_vars

\* the part of C15 about values outside the vocabulary: once the loader is
\* fitted a user record is transformed without an error, and the block of a
\* value outside the vocabulary is all zero and as wide as the vocabulary
C15_UnseenValueGivesZeroBlock ==
    /\ [](lastTransform.ok =>
            \A c \in DOMAIN categoricalFeatures :
                LET vocabulary == categoricalMappings[1][categoricalFeatures[c]]
                    block == BlockOf(lastTransform.vector, categoricalMappings[1], c)
                IN  /\ Len(block) = Len(vocabulary)
                    /\ lastTransform.input[1][categoricalFeatures[c]] \notin Range(vocabulary)
                          => \A p \in DOMAIN block : block[p] = 0)
    /\ [][(/\ lastTransform' # lastTransform
           /\ featureStats # None
           /\ categoricalMappings # None) => lastTransform'.ok]_vars

\* 9 + |vocabulary(fast_charge_port)| + |vocabulary(drivetrain)|
FittedWidth(mappings) ==
    9 + Len(mappings["fast_charge_port"]) + Len(mappings["drivetrain"])

\* C16: after a successful preprocessData, processedData.inputShape is
\* 9 + |vocabulary(fast_charge_port)| + |vocabulary(drivetrain)|; every feature
\* vector of train and of test, and every vector transformUserInput returns
\* for a user record, has that length; and it is the input dimension the model
\* is built with.
C16_VectorsHaveInputShape ==
    /\ prep.ok =>
          LET pd == processedData[1]
          IN  /\ pd.inputShape = FittedWidth(categoricalMappings[1])
              /\ \A i \in DOMAIN pd.train.features :
                    Len(pd.train.features[i]) = pd.inputShape
              /\ \A i \in DOMAIN pd.test.features :
                    Len(pd.test.features[i]) = pd.inputShape
    /\ (lastTransform.ok /\ processedData # None) =>
          Len(lastTransform.vector) = processedData[1].inputShape
    /\ (model # None) =>
          processedData # None /\ model[1].inputShape = processedData[1].inputShape

\* C16 witness: the model is built and trained on vectors of 9 + 2 + 2
\* entries, and a user record with a drivetrain never seen was transformed to
\* a vector of the same length
C16_Witness ==
    /\ stage = "Ready"
    /\ model[1].inputShape = 13
    /\ lastTransform.ok
    /\ lastTransform.input[1]["drivetrain"] = Str("6WD")
    /\ Len(lastTransform.vector) = 13

\* C17 (the claim as stated): preprocessData raises no error for a row whose
\* target cell is missing or empty, or which has a numerical feature that is
\* missing, empty or no number, or lacks a categorical feature; the row is left
\* out: every row that contributes to the statistics, the vocabularies and the
\* split has a number in each numerical feature, a value in each categorical
\* feature and a number as its target, so every target of train and of test
\* is a number.
C17_BadRowsAreExcluded ==
    (prep.called /\ prep.reached \in {"shape", "split", "done"}) =>
        /\ \A i \in DOMAIN prep.features :
              LET row == prep.features[i]
              IN  /\ \A j \in DOMAIN numericalFeatures :
                        /\ numericalFeatures[j] \in DOMAIN row
                        /\ row[numericalFeatures[j]].k = "num"
                  /\ \A j \in DOMAIN categoricalFeatures :
                        categoricalFeatures[j] \in DOMAIN row
                  /\ targetColumn \in DOMAIN row
                  /\ row[targetColumn].k = "num"
        /\ prep.ok =>
              /\ \A i \in DOMAIN processedData[1].train.targets :
                    processedData[1].train.targets[i].k = "num"
              /\ \A i \in DOMAIN processedData[1].test.targets :
                    processedData[1].test.targets[i].k = "num"

\* the part of C17 about the features: a row with a numerical feature that is
\* empty or no number never contributes, and no error is raised for it
C17_NonNumericFeatureRowsExcluded ==
    (prep.called /\ prep.reached \in {"shape", "split", "done"}) =>
        \A i \in DOMAIN prep.features :
            \A j \in DOMAIN numericalFeatures :
                prep.features[i][numericalFeatures[j]].k = "num"

\* the 9 numerical features, the 2 categorical features and the target
RequiredColumns ==
    {"top_speed_kmh", "battery_capacity_kWh", "torque_nm", "acceleration_0_100_s",
     "fast_charging_power_kw_dc", "seats", "length_mm", "width_mm", "height_mm",
     "fast_charge_port", "drivetrain", "range_km"}

\* the required columns the loaded data does not have
AbsentColumns == RequiredColumns \ DOMAIN rawData[1][1]

\* C18: when a required column is absent from the columns of the loaded data,
\* a preprocessData call that finds the data fails with the error "Missing
\* required columns" listing every absent column once; the check comes before
\* the row filter, so this error is raised whatever the rows hold (not the
\* empty-dataset or the insufficient-data error), no row is filtered, nothing
\* is fitted and no split is produced.
C18_MissingColumnsReported ==
    (/\ prep.called /\ prep.reached # "guard"
     /\ rawData # None /\ rawData[1] # <<>>
     /\ AbsentColumns # {}) =>
        /\ ~prep.ok
        /\ prep.reached = "schema"
        /\ Len(prep.error) = 2 + Cardinality(AbsentColumns)
        /\ prep.error[1] = "Data preprocessing failed"
        /\ prep.error[2] = "Missing required columns"
        /\ {prep.error[i] : i \in 3 .. Len(prep.error)} = AbsentColumns
        /\ prep.features = <<>>
        /\ prep.trainIndices = <<>> /\ prep.testIndices = <<>>
        /\ processedData = None
        /\ featureStats = None /\ categoricalMappings = None

\* C18 witness: a file of two well-formed lines whose header lacks seats and
\* range_km was refused, both columns being listed
C18_Witness ==
    /\ prep.called
    /\ rawData # None /\ Len(rawData[1]) = 2
    /\ prep.error = <<"Data preprocessing failed", "Missing required columns",
                      "seats", "range_km">>
    /\ processedData = None

----------------------------------------------------------------------------
(* Claims about the failures of loading and preprocessing, checked under Spec *)

\* a row that survives the filter: it has a target, a number in each of the
\* numerical features and a value in each of the categorical features
PassesFilter(row) ==
    /\ "range_km" \in DOMAIN row
    /\ \A f \in RequiredColumns \ {"fast_charge_port", "drivetrain", "range_km"} :
          f \in DOMAIN row /\ row[f].k = "num"
    /\ \A f \in {"fast_charge_port", "drivetrain"} : f \in DOMAIN row

\* C19: when preprocessData runs on data that has every required column and of
\* which no row survives the filter, it fails with the error "No valid samples
\* found after filtering missing values"; processedData is not set, nothing
\* is fitted, and initialize ends in Failed at the preprocessing step without
\* ever building a model.
C19_EmptyDatasetReported ==
    (/\ prep.called
     /\ rawData # None /\ rawData[1] # <<>>
     /\ AbsentColumns = {}
     /\ \A i \in DOMAIN rawData[1] : ~PassesFilter(rawData[1][i])) =>
        /\ ~prep.ok
        /\ prep.error = <<"Data preprocessing failed",
                          "No valid samples found after filtering missing values">>
        /\ processedData = None
        /\ featureStats = None /\ categoricalMappings = None
        /\ stage = "Failed"
        /\ status.type = "error"
        /\ model = None
        /\ ~isModelReady
        /\ tensors.train = 0
        /\ stepStatus["build"].icon = "pending"

\* C19 witness: a file whose only data line has a numerical feature that is no
\* number was loaded, and the session failed at the preprocessing
C19_Witness ==
    /\ loadResult.ok
    /\ Len(rawData[1]) = 1
    /\ prep.called
    /\ prep.reached = "empty"
    /\ stage = "Failed"
    /\ model = None

\* the lines of a content once the blank lines at its two ends are trimmed off
ContentLines(text) ==
    LET inked == {i \in DOMAIN text : ~(Len(text[i]) = 1 /\ text[i][1] \in {"", " "})}
    IN  IF inked = {} THEN <<>>
        ELSE SubSeq(text, CHOOSE i \in inked : \A j \in inked : i <= j,
                          CHOOSE i \in inked : \A j \in inked : j <= i)

\* what a loadCSV call that received a text has left: result in loadResult, raw
\* in rawData
LoadedAsStated(result, raw) ==
    LET lines == ContentLines(result.text)
        header == lines[1]
        kept == SelectSeq(Tail(lines), LAMBDA line : Len(line) = Len(header))
    IN  IF Len(lines) < 2
        THEN /\ ~result.ok
             /\ result.error =
                    <<"CSV loading failed", "CSV parsing failed",
                      "CSV file must contain header and at least one data row">>
             /\ raw = None
        ELSE /\ raw # None
             /\ Len(raw[1]) = Len(kept)
             /\ \A k \in DOMAIN kept :
                   /\ DOMAIN raw[1][k] = {TrimCell(header[c]) : c \in DOMAIN header}
                   /\ \A c \in DOMAIN header :
                         raw[1][k][TrimCell(header[c])] = Coerce(TrimCell(kept[k][c]))
             /\ result.ok <=> Len(kept) >= 1
             /\ ~result.ok =>
                   result.error = <<"CSV loading failed", "No data found in CSV file">>

\* C20: on a content of fewer than two lines (after trimming) parseCSV fails
\* with the format error, and loadCSV with it; otherwise the records are, in
\* the order of the file, those of the data lines that have as many cells as
\* the header, every other data line being dropped without an error; loadCSV
\* succeeds exactly when there is at least one record, and initialize goes
\* beyond Loading only after such a success.
C20_ParseAndLoad ==
    /\ [][(loadResult' # loadResult /\ loadResult'.kind = "text")
            => LoadedAsStated(loadResult', rawData')]_vars
    /\ [][(stage = "Loading" /\ stage' = "Preprocessing")
            => loadResult'.ok /\ rawData' # None /\ Len(rawData'[1]) >= 1]_vars
    /\ [](stage \in {"Preprocessing", "BuildingModel", "Training", "Ready"} =>
            /\ loadResult.ok
            /\ rawData # None
            /\ Len(rawData[1]) >= 1)

\* C20 witness: of a file with a short line and two full lines the two full
\* lines were returned, in their order, and initialize went on to Preprocessing
C20_Witness ==
    /\ loadResult.ok
    /\ loadResult.text = <<FullHeader, ShortLine, GoodLine(1), GoodLine(2)>>
    /\ Len(rawData[1]) = 2
    /\ rawData[1][1]["top_speed_kmh"] = Num(2)
    /\ rawData[1][2]["top_speed_kmh"] = Num(3)
    /\ stage = "Preprocessing"

----------------------------------------------------------------------------
(* Claims about the fitted state, checked under SpecPipeline unless said     *)
(* otherwise                                                                *)

\* the stored std of the statistics st is 0, or is 1
StdIsZero(st) == st.sq = 0 /\ st.ulps = 0
StdIsOne(st) == st.sq = 100 * st.n * st.n /\ st.ulps = 0

\* C21 (the claim as stated): once the statistics are fitted, the stored std
\* of every numerical feature is not 0; a feature whose values are equal over
\* all valid rows has the std 1, and the normalized value of that feature is
\* exactly 0 in every valid row.
C21_EqualValuesGetStdOne ==
    (prep.called /\ prep.reached \in {"shape", "split", "done"}) =>
        \A j \in DOMAIN numericalFeatures :
            LET f == numericalFeatures[j]
                st == featureStats[1][f]
            IN  /\ ~StdIsZero(st)
                /\ (\A i \in DOMAIN prep.features : prep.features[i][f] = prep.features[1][f])
                      => /\ StdIsOne(st)
                         /\ \A i \in DOMAIN prep.transformedFeatures :
                               /\ ~prep.transformedFeatures[i][j].nan
                               /\ prep.transformedFeatures[i][j].num = 0

\* the part of C21 about the division: the stored std is never 0, and no
\* normalized value of a valid row is NaN
C21_StdIsNeverZero ==
    (prep.called /\ prep.reached \in {"shape", "split", "done"}) =>
        \A j \in DOMAIN numericalFeatures :
            /\ ~StdIsZero(featureStats[1][numericalFeatures[j]])
            /\ \A i \in DOMAIN prep.transformedFeatures :
                  /\ ~prep.transformedFeatures[i][j].nan
                  /\ prep.transformedFeatures[i][j].sq > 0

\* the fitted state of the loader
FittedState == <<featureStats, categoricalMappings>>

\* the rows of the loaded data that survive the filter
SurvivingRows(raw) == SelectSeq(raw[1], PassesFilter)

\* C22, under Spec: the fitted state is assigned once in a session, by the
\* preprocessData call of initialize, from all the rows that survive the
\* filter (each feature's count and sum are those of all these rows, each
\* vocabulary holds the values of all these rows); no later step changes it,
\* whatever the training does and however many Predict requests are made; and
\* the vector of a Predict request is the one the fitted values give.
C22_FittedStateIsReadOnly ==
    /\ [][FittedState' # FittedState =>
            /\ FittedState = <<None, None>>
            /\ stage = "Preprocessing"
            /\ ~prep.called /\ prep'.called
            /\ featureStats' # None /\ categoricalMappings' # None
            /\ LET rows == SurvivingRows(rawData)
               IN  /\ \A f \in DOMAIN featureStats'[1] :
                         /\ featureStats'[1][f].n = Len(rows)
                         /\ featureStats'[1][f].sum
                               = SumSeq([i \in DOMAIN rows |-> InTenths(rows[i][f])])
                   /\ \A f \in DOMAIN categoricalMappings'[1] :
                         Range(categoricalMappings'[1][f])
                             = {rows[i][f] : i \in DOMAIN rows}]_vars
    /\ [](stage \in {"BuildingModel", "Training", "Ready"} =>
            /\ featureStats # None /\ categoricalMappings # None
            /\ FittedState = <<prep.featureStats, prep.categoricalMappings>>)
    /\ [](lastTransform.ok =>
            lastTransform.vector =
                transformFeatures(lastTransform.input[1], prep.featureStats[1],
                                  prep.categoricalMappings[1]))

\* C22 witness: after the training two Predict requests were served, the
\* second for a drivetrain never seen; the fitted state is the one
\* preprocessData left
C22_Witness ==
    /\ stage = "Ready"
    /\ Len(trainingHistory.loss) = TotalEpochs
    /\ requests.log = <<"awaiting", "shown", "awaiting">>
    /\ lastTransform.input[1]["drivetrain"] = Str("6WD")
    /\ FittedState = <<prep.featureStats, prep.categoricalMappings>>
    /\ featureStats[1]["seats"].n = 2

----------------------------------------------------------------------------
(* Claims about the course of the training and of the session, checked      *)
(* under Spec                                                               *)

\* the 1-based epochs up to e at which the chart is to be redrawn: the
\* multiples of 5 and the final epoch
RedrawEpochs(e) == {k \in 1 .. e : k % 5 = 0 \/ k = TotalEpochs}

\* an epoch of the training ends: the history gains the record of the epoch,
\* the display shows the index and the metrics of the epoch, and the run
\* either yields to the scheduler or fails
EpochRecordedAndShown ==
    /\ Len(trainingHistory'.loss) = epoch + 1
    /\ Len(trainingHistory'.valLoss) = epoch + 1
    /\ Len(trainingHistory'.mae) = epoch + 1
    /\ SubSeq(trainingHistory'.loss, 1, epoch) = trainingHistory.loss
    /\ SubSeq(trainingHistory'.valLoss, 1, epoch) = trainingHistory.valLoss
    /\ SubSeq(trainingHistory'.mae, 1, epoch) = trainingHistory.mae
    /\ ui'.epochValue = epoch + 1
    /\ stage' = "Training" =>
          /\ pc' = "epochFrame"
          /\ ui'.metrics # None
          /\ ui'.metrics[1].loss = trainingHistory'.loss[epoch + 1]
          /\ ui'.metrics[1].val_loss = trainingHistory'.valLoss[epoch + 1]
          /\ ui'.metrics[1].mae = trainingHistory'.mae[epoch + 1]
    /\ stage' # "Training" => stage' = "Failed"

\* C23 (the claim as stated): every epoch k of the training appends the record
\* of epoch k to the history and shows its index and metrics, then yields to
\* the scheduler; epoch k + 1 ends only after that yield has returned, so
\* records and displays follow the order of the epochs; and while the training
\* has not failed, the chart has been redrawn exactly at the epochs that are
\* multiples of 5 and at the final epoch.
C23_EpochsRecordedShownThenYield ==
    /\ [][(stage = "Training" /\ epoch' = epoch + 1) =>
            /\ pc = "fit"
            /\ EpochRecordedAndShown]_vars
    /\ [][(stage = "Training" /\ pc = "epochFrame" /\ pc' # pc) =>
            /\ pc' = "fit"
            /\ UNCHANGED <<epoch, trainingHistory, ui>>]_vars
    /\ [](stage \in {"Training", "Ready"} =>
            /\ Len(ui.chartDraws) = Cardinality(RedrawEpochs(epoch))
            /\ Range(ui.chartDraws) = RedrawEpochs(epoch)
            /\ \A i, j \in DOMAIN ui.chartDraws :
                  i < j => ui.chartDraws[i] < ui.chartDraws[j])

\* the part of C23 that holds: an epoch whose logs reach the history is shown
\* and followed by the yield, or fails the training; records are appended in
\* the order of the epochs; the next epoch ends only after the yield; and the
\* chart is redrawn only at epochs due and in their order
C23_RecordedEpochsShownThenYield ==
    /\ [][(stage = "Training" /\ epoch' = epoch + 1) =>
            /\ pc = "fit"
            /\ \/ UNCHANGED <<trainingHistory, ui>> /\ variant = "application"
               \/ /\ trainingHistory'.loss = Append(trainingHistory.loss,
                                                    trainingHistory'.loss[Len(trainingHistory'.loss)])
                  /\ ui'.epochValue = epoch + 1
                  /\ stage' = "Training" => pc' = "epochFrame" /\ ui'.metrics # None
                  /\ stage' # "Training" => stage' = "Failed"]_vars
    /\ [][(stage = "Training" /\ pc = "epochFrame" /\ pc' # pc) =>
            /\ pc' = "fit"
            /\ UNCHANGED <<epoch, trainingHistory, ui>>]_vars
    /\ [](/\ Range(ui.chartDraws) \subseteq RedrawEpochs(epoch)
          /\ \A i, j \in DOMAIN ui.chartDraws :
                i < j => ui.chartDraws[i] < ui.chartDraws[j])

\* C24: isTraining and isModelReady are never both true; isTraining is true
\* only while trainModel is suspended at one of its awaits (model.fit, the
\* frame of an epoch, the two reads of the evaluation), so it is false before
\* trainModel starts and after it has returned or thrown, on every path; it is
\* false in Ready and in Failed.
C24_TrainingFlagOnlyDuringTraining ==
    /\ ~(isTraining /\ isModelReady)
    /\ isTraining =>
          /\ stage = "Training"
          /\ pc \in {"fit", "epochFrame", "evalLoss", "evalMAE"}
    /\ stage \in {"Idle", "Loading", "Preprocessing", "BuildingModel"} => ~isTraining
    /\ stage \in {"Ready", "Failed"} => ~isTraining
    /\ isModelReady => stage = "Ready"

\* C24 witness: the training failed after its first epoch, and the flag is
\* cleared
C24_Witness ==
    /\ stage = "Failed"
    /\ prep.ok
    /\ model # None
    /\ epoch = 1
    /\ trainingHistory.loss # <<>>
    /\ status.type = "error"
    /\ ~isTraining
    /\ ~isModelReady

\* the two terminal outcomes as the page shows them
ReadyOutcome == status.type = "success" /\ isModelReady /\ ~predictBtnDisabled

FailedOutcome == status.type = "error" /\ ~isModelReady

\* the two outcomes exclude each other, and each is shown exactly in the
\* stage of its name
OutcomesDistinct ==
    /\ ~(ReadyOutcome /\ FailedOutcome)
    /\ ReadyOutcome <=> stage = "Ready"
    /\ FailedOutcome <=> stage = "Failed"

\* C25: under a host whose calls all return or throw, the session that the
\* page load starts eventually shows the Ready outcome (status success,
\* isModelReady true, button enabled) or the Failed outcome (status error,
\* isModelReady false), so it does not stay in Loading, Preprocessing,
\* BuildingModel or Training; the two outcomes exclude each other in every
\* state; an outcome once reached is kept, whatever Predict requests follow;
\* and a session that has shown one of the success and error statuses never
\* shows the other.
C25_SessionReachesOneOutcomeAndStays ==
    /\ <>(ReadyOutcome \/ FailedOutcome)
    /\ OutcomesDistinct
    /\ [][OutcomesDistinct']_vars
    /\ [][ReadyOutcome => ReadyOutcome']_vars
    /\ [][FailedOutcome => FailedOutcome']_vars
    /\ [][status.type = "success" => status'.type # "error"]_vars
    /\ [][status.type = "error" => status'.type # "success"]_vars

\* C25 witness: a session that went through every stage and every epoch has
\* reached the Ready outcome, and a Predict request has been answered since
C25_Witness ==
    /\ ReadyOutcome
    /\ stage = "Ready"
    /\ epoch = TotalEpochs
    /\ ~isTraining
    /\ ui.resultShown

====
